---- MODULE Spec2Model ----
(***************************************************************************)
(* State-machine model of the ADB session core of android-sync:            *)
(*   crates/adb_client/src/device/adb_message_device.rs  (ADBMessageDevice)*)
(*   src-tauri/src/lib.rs                                (directory walker)*)
(*                                                                         *)
(* Four specifications share the variables of this module:                 *)
(*   SpecAuth    auth_handshake, one step per packet consumed              *)
(*               (SpecAuthLive adds the fairness of the running loop)      *)
(*   SpecStream  open_session / send_and_expect_okay / recv_and_reply_okay *)
(*               / stat_with_explicit_ids / push_file / end_transaction,   *)
(*               one step per blocking read of the transport               *)
(*   SpecWalk    perform_sync's walk over the local tree                   *)
(*   SpecPath    normalize_remote_path applied to a device path            *)
(* The peer (the device) is the environment: every packet it sends is      *)
(* chosen with \E from a small alphabet.  A step of a blocking procedure   *)
(* is one read together with all the code that runs up to the next read.   *)
(* Transport write errors are not modelled: write_message always succeeds. *)
(***************************************************************************)
EXTENDS Integers, Sequences, FiniteSets, TLC

(***************************************************************************)
(* Bounds                                                                  *)
(***************************************************************************)
\* packets the device may send during one handshake
MaxAuthPackets == 4
\* operations called on one session, and packets read by one operation
MaxOps == 3
MaxReads == 3
\* bytes of the pushed file, and the size of push_file's read buffer
\* (constants::BUFFER_SIZE, 64 KiB in the crate, scaled down)
MaxFileLen == 3
BUFFER_SIZE == 2

(***************************************************************************)
(* Packets: the header fields the session interprets, and the payload as a *)
(* sequence of small integers (bytes).                                     *)
(***************************************************************************)
AUTH_TOKEN == 1
AUTH_SIGNATURE == 2
AUTH_RSAPUBLICKEY == 3

ADBTransportMessage(command, arg0, arg1, payload) ==
    [command |-> command, arg0 |-> arg0, arg1 |-> arg1, payload |-> payload]

\* String::from_utf8 on the byte alphabet of the model: bytes below 0x80 are
\* one-byte code points, 0xFF never occurs in well-formed UTF-8.
FromUtf8Ok(payload) == \A i \in 1..Len(payload) : payload[i] < 128

\* The arguments of log::info! are evaluated only when a logger has raised the
\* log level; run() installs none, so the level stays Off.
InfoLogEnabled == FALSE

\* ADBRsaKey::sign: the signature is a function of the token alone; the model
\* keeps the token inside the signature so that distinct tokens have distinct
\* signatures (83 = 'S').
Sign(payload) == <<83>> \o payload

\* ADBRsaKey::android_pubkey_encode(), as bytes ("key")
AndroidPubkeyEncode == <<107, 101, 121>>

VARIABLES
    \* ---- auth_handshake ----
    hs,          \* "idle" | "running" | "Ready" | "Failed"
    hsError,     \* "none" or the error kind returned
    hsRead,      \* packets consumed by the loop, in order (message included)
    hsWritten    \* packets written by the loop, in order

VARIABLES
    \* ---- ADBMessageDevice ----
    local_id,    \* Option<u32>: None or the stored identifier
    remote_id,
    op,          \* the operation in progress, or the last one that returned
    pc,          \* the blocking read the operation waits in; "idle" once it returned
    result,      \* "none", "Ok" or the error of the last operation that returned
    written,     \* packets written by the current/last operation, in order
    lastRead,    \* the packet most recently read by the operation
    nread,       \* packets read by the current/last operation
    nops,        \* operations called so far
    unacked,     \* history: <<arg0, arg1>> of every WRTE written whose OKAY was not read yet
    argLocal,    \* push_file's local_id / remote_id arguments
    argRemote,
    fileLen,     \* push_file's reader: length of the file and bytes consumed
    offset,
    statResponse \* what stat_with_explicit_ids returned: <<mode, size, mtime>> or <<>>

VARIABLES
    \* ---- perform_sync ----
    tree,               \* the local tree: entry of every path below local_root
    dry_run,
    remote_root,        \* normalized remote root, a string of bytes
    wpc,                \* "start" | "create_dirs" | "walk" | "done" | "failed"
    werror,             \* "none" or the SyncError returned
    remote_directories, \* the list returned by collect_remote_directories
    dirIndex,           \* position of create_remote_directories in that list
    created_dirs,       \* HashSet<String>
    stats,              \* SyncStats
    progress,           \* ProgressReporter: processed_files, total_files
    events,             \* payloads emitted to the progress sink, in order
    requests,           \* commands issued to the device, in order
    stack,              \* sync_directory's recursion: directory and entries still to visit
    shell_device,       \* "none" | "open" | "dropped"
    adb_device          \* "none" | "open" | "dropped"

VARIABLES
    \* ---- normalize_remote_path ----
    device_path,        \* the path given by the user, a string of bytes
    normalized_path     \* the results of applying normalize_remote_path, in order

authVars == <<hs, hsError, hsRead, hsWritten>>
pathVars == <<device_path, normalized_path>>
walkVars == <<tree, dry_run, remote_root, wpc, werror, remote_directories, dirIndex,
              created_dirs, stats, progress, events, requests, stack,
              shell_device, adb_device, pathVars>>
devVars == <<local_id, remote_id, op, pc, result, written, lastRead, nread, nops,
             unacked, argLocal, argRemote, fileLen, offset, statResponse>>
vars == <<authVars, devVars, walkVars>>

(***************************************************************************)
(* auth_handshake                                                          *)
(***************************************************************************)
\* what the device can send during the handshake
Tokens == {<<1>>, <<2>>}
Banners == {<<100>>, <<255>>}
AuthInputs ==
    {ADBTransportMessage("CNXN", 0, 0, b) : b \in Banners}
    \cup {ADBTransportMessage("AUTH", AUTH_TOKEN, 0, t) : t \in Tokens}
    \cup {ADBTransportMessage("AUTH", a, 0, <<>>) : a \in {AUTH_SIGNATURE, AUTH_RSAPUBLICKEY}}
    \cup {ADBTransportMessage(c, 1, 1, <<>>) : c \in {"OPEN", "OKAY", "CLSE", "WRTE", "SYNC"}}

\* ADBMessageDevice::new: no stream, nothing read or written yet
None == -1
NoPayload == [id |-> "", arg |-> 0, data |-> <<>>]
NoMessage == [command |-> "none", arg0 |-> 0, arg1 |-> 0, payload |-> NoPayload]

\* no sync request is running
SyncStats == [files_synced |-> 0, files_deleted |-> 0, skipped_entries |-> 0,
              directories_created |-> 0, bytes_uploaded |-> 0]

NoWalk ==
    /\ tree = <<>> /\ dry_run = FALSE /\ remote_root = <<47>>
    /\ wpc = "idle" /\ werror = "none"
    /\ remote_directories = <<>> /\ dirIndex = 0
    /\ created_dirs = {}
    /\ stats = SyncStats
    /\ progress = [processed_files |-> 0, total_files |-> 0]
    /\ events = <<>> /\ requests = <<>> /\ stack = <<>>
    /\ shell_device = "none" /\ adb_device = "none"
    /\ device_path = <<>> /\ normalized_path = <<>>

DeviceNew ==
    /\ local_id = None /\ remote_id = None
    /\ op = "none" /\ pc = "idle" /\ result = "none"
    /\ written = <<>> /\ lastRead = NoMessage /\ nread = 0 /\ nops = 0
    /\ unacked = <<>>
    /\ argLocal = None /\ argRemote = None
    /\ fileLen = 0 /\ offset = 0
    /\ statResponse = <<>>

InitAuth ==
    /\ hs = "running"
    /\ hsError = "none"
    /\ hsRead = <<>>
    /\ hsWritten = <<>>
    /\ DeviceNew
    /\ NoWalk

\* guard shared by every arm of the loop: the loop is running and the device
\* still has a packet to deliver (the first one is the `message` argument)
AuthTake(m) ==
    /\ hs = "running"
    /\ Len(hsRead) < MaxAuthPackets
    /\ m \in AuthInputs
    /\ hsRead' = Append(hsRead, m)

\* MessageCommand::Cnxn => return Ok(()), unless formatting the banner fails
AuthCnxn(m) ==
    /\ AuthTake(m)
    /\ m.command = "CNXN"
    /\ IF InfoLogEnabled /\ ~FromUtf8Ok(m.payload)
         THEN hs' = "Failed" /\ hsError' = "Utf8Error"
         ELSE hs' = "Ready" /\ hsError' = "none"
    /\ UNCHANGED hsWritten
    /\ UNCHANGED <<devVars, walkVars>>

\* a reply to AUTH_TOKEN that carries the token itself instead of its signature
AuthTokenReplyUnsigned(m) == ADBTransportMessage("AUTH", AUTH_SIGNATURE, 0, m.payload)

\* the reply to AUTH_TOKEN
AuthTokenReply(m) == ADBTransportMessage("AUTH", AUTH_SIGNATURE, 0, Sign(m.payload))

\* AUTH_TOKEN => sign the payload, write AUTH/SIGNATURE, keep looping
AuthToken(m) ==
    /\ AuthTake(m)
    /\ m.command = "AUTH" /\ m.arg0 = AUTH_TOKEN
    /\ hsWritten' = Append(hsWritten, AuthTokenReply(m))
    /\ UNCHANGED <<hs, hsError>>
    /\ UNCHANGED <<devVars, walkVars>>

\* AUTH_RSAPUBLICKEY => write AUTH/RSAPUBLICKEY with the NUL-terminated key
AuthRsaPublicKey(m) ==
    /\ AuthTake(m)
    /\ m.command = "AUTH" /\ m.arg0 = AUTH_RSAPUBLICKEY
    /\ hsWritten' = Append(hsWritten,
          ADBTransportMessage("AUTH", AUTH_RSAPUBLICKEY, 0, Append(AndroidPubkeyEncode, 0)))
    /\ UNCHANGED <<hs, hsError>>
    /\ UNCHANGED <<devVars, walkVars>>

\* an AUTH of unsupported type that is passed over like a stray packet
AuthUnsupportedIgnored(m) ==
    /\ AuthTake(m)
    /\ m.command = "AUTH" /\ m.arg0 \notin {AUTH_TOKEN, AUTH_RSAPUBLICKEY}
    /\ UNCHANGED <<hs, hsError, hsWritten>>
    /\ UNCHANGED <<devVars, walkVars>>

\* AUTH with any other arg0 => Err(ADBRequestFailed)
AuthUnsupported(m) ==
    /\ AuthTake(m)
    /\ m.command = "AUTH" /\ m.arg0 \notin {AUTH_TOKEN, AUTH_RSAPUBLICKEY}
    /\ hs' = "Failed" /\ hsError' = "ADBRequestFailed"
    /\ UNCHANGED hsWritten
    /\ UNCHANGED <<devVars, walkVars>>

\* a loop without the three arms for stray packets: they reach `other`
AuthStrayRejected(m) ==
    /\ AuthTake(m)
    /\ m.command \in {"CLSE", "OKAY", "WRTE"}
    /\ hs' = "Failed" /\ hsError' = "WrongResponseReceived"
    /\ UNCHANGED hsWritten
    /\ UNCHANGED <<devVars, walkVars>>

\* Clse | Okay | Write => logged and ignored
AuthStray(m) ==
    /\ AuthTake(m)
    /\ m.command \in {"CLSE", "OKAY", "WRTE"}
    /\ UNCHANGED <<hs, hsError, hsWritten>>
    /\ UNCHANGED <<devVars, walkVars>>

\* other => Err(WrongResponseReceived)
AuthWrongResponse(m) ==
    /\ AuthTake(m)
    /\ m.command \notin {"CNXN", "AUTH", "CLSE", "OKAY", "WRTE"}
    /\ hs' = "Failed" /\ hsError' = "WrongResponseReceived"
    /\ UNCHANGED hsWritten
    /\ UNCHANGED <<devVars, walkVars>>

\* the error read_message_with_timeout returns when its timeout expires
ReadMessageWithTimeoutExpired == "Timeout"

\* a read without timeout: the loop stays blocked when the device is silent
AuthReadBlocks ==
    /\ hs = "running"
    /\ Len(hsRead) >= 1
    /\ UNCHANGED vars

\* read_message_with_timeout(10 s)? : the device sent nothing in time.  The
\* first packet is passed in by the caller, so only later reads can expire.
AuthReadTimeout ==
    /\ hs = "running"
    /\ Len(hsRead) >= 1
    /\ hs' = "Failed" /\ hsError' = ReadMessageWithTimeoutExpired
    /\ UNCHANGED <<hsRead, hsWritten>>
    /\ UNCHANGED <<devVars, walkVars>>

NextAuth ==
    \/ \E m \in AuthInputs : AuthCnxn(m)
    \/ \E m \in AuthInputs : AuthToken(m)
    \/ \E m \in AuthInputs : AuthRsaPublicKey(m)
    \/ \E m \in AuthInputs : AuthUnsupported(m)
    \/ \E m \in AuthInputs : AuthStray(m)
    \/ \E m \in AuthInputs : AuthWrongResponse(m)
    \/ AuthReadTimeout

SpecAuth == InitAuth /\ [][NextAuth]_vars

\* the thread that runs auth_handshake keeps running: a packet that arrived
\* is consumed, and a read that nothing arrives for expires after 10 seconds
SpecAuthLive == SpecAuth /\ WF_vars(NextAuth)


(***************************************************************************)
(* ADBMessageDevice: the stream layer and the sync sub-protocol            *)
(***************************************************************************)
\* stream identifiers: rng.random() is any u32, 0 included
Ids == {0, 1}

\* a sync header (MessageSubcommand::X.with_arg(arg), 8 bytes once serialized)
\* followed by data bytes; id = "" stands for a payload without header
SyncFrame(id, arg, data) == [id |-> id, arg |-> arg, data |-> data]
Raw(data) == SyncFrame("", 0, data)

\* number of bytes of a payload
ByteLen(p) == (IF p.id = "" THEN 0 ELSE 8) + Len(p.data)

\* a little-endian u32 read from four bytes
ReadU32(b) == b[1] + 256 * b[2] + 65536 * b[3] + 16777216 * b[4]

\* the destination of begin_synchronization, b"sync:\0"
SyncDestination == <<115, 121, 110, 99, 58, 0>>
\* the remote path of the STAT request ("/a")
StatPath == <<47, 97>>

\* sync frames the device may put in a WRTE: the OKAY and FAIL replies to
\* SEND, and STAT replies for an existing file (mode 0o100644, size 1) and
\* for a missing one (all zero)
PeerFrames ==
    { SyncFrame("OKAY", 0, <<>>),
      SyncFrame("FAIL", 1, <<120>>),
      SyncFrame("STAT", 33188, <<1, 0, 0, 0, 0, 0, 0, 0>>),
      SyncFrame("STAT", 0, <<0, 0, 0, 0, 0, 0, 0, 0>>) }

\* what the device can send on the authenticated link
StreamInputs ==
    {ADBTransportMessage("OKAY", a0, a1, NoPayload) : a0 \in Ids, a1 \in Ids}
    \cup {ADBTransportMessage("WRTE", 0, 0, f) : f \in PeerFrames}
    \cup {ADBTransportMessage(c, 0, 0, NoPayload) : c \in {"CLSE", "CNXN", "AUTH", "OPEN", "SYNC"}}

InitStream ==
    /\ hs = "Ready"
    /\ hsError = "none"
    /\ hsRead = <<>>
    /\ hsWritten = <<>>
    /\ DeviceNew
    /\ NoWalk

\* ---- history of unacknowledged WRTEs ----
RECURSIVE RemoveFirst(_, _)
RemoveFirst(s, x) ==
    IF s = <<>> THEN <<>>
    ELSE IF Head(s) = x THEN Tail(s)
    ELSE <<Head(s)>> \o RemoveFirst(Tail(s), x)

\* an OKAY arg0=remote arg1=local acknowledges the oldest WRTE arg0=local arg1=remote
Acknowledge(u, m) ==
    IF m.command = "OKAY" THEN RemoveFirst(u, <<m.arg1, m.arg0>>) ELSE u

RECURSIVE Outstanding(_)
Outstanding(ws) ==
    IF ws = <<>> THEN <<>>
    ELSE (IF Head(ws).command = "WRTE" THEN << <<Head(ws).arg0, Head(ws).arg1>> >> ELSE <<>>)
         \o Outstanding(Tail(ws))

\* ---- bookkeeping shared by the actions ----
\* an operation can be called: none is running, and no earlier one failed
\* (every caller propagates an error with `?`)
Callable ==
    /\ hs = "Ready"
    /\ pc = "idle"
    /\ result \in {"none", "Ok"}
    /\ nops < MaxOps

\* the operation `name` starts, writes ws and blocks in `at`
Call(name, at, ws) ==
    /\ op' = name /\ pc' = at /\ result' = "none"
    /\ written' = ws
    /\ lastRead' = NoMessage /\ nread' = 0
    /\ nops' = nops + 1
    /\ unacked' = unacked \o Outstanding(ws)

\* the operation fails before it writes or reads anything
CallFails(name, error) ==
    /\ op' = name /\ pc' = "idle" /\ result' = error
    /\ written' = <<>>
    /\ lastRead' = NoMessage /\ nread' = 0
    /\ nops' = nops + 1
    /\ UNCHANGED unacked

\* transport.read_message() delivers m, then the operation writes ws
Step(m, ws) ==
    /\ m \in StreamInputs
    /\ nread < MaxReads
    /\ lastRead' = m /\ nread' = nread + 1
    /\ written' = written \o ws
    /\ unacked' = Acknowledge(unacked, m) \o Outstanding(ws)
    /\ UNCHANGED nops

\* the arguments, locals and return value of the previous operation are gone
FreshLocals ==
    /\ argLocal' = None /\ argRemote' = None
    /\ fileLen' = 0 /\ offset' = 0
    /\ statResponse' = <<>>

Goto(at) == pc' = at /\ UNCHANGED <<op, result>>
Return(r) == pc' = "idle" /\ result' = r /\ UNCHANGED op

\* get_local_id / get_remote_id
HasIds == local_id # None /\ remote_id # None

\* ---- open_session ----
OpenSession(lid) ==
    /\ Callable
    /\ lid \in Ids
    /\ Call("open_session", "open_read",
            <<ADBTransportMessage("OPEN", lid, 0, Raw(SyncDestination))>>)
    /\ FreshLocals
    /\ UNCHANGED <<local_id, remote_id>>
    /\ UNCHANGED <<authVars, walkVars>>

OpenSessionResponse(m) ==
    /\ op = "open_session" /\ pc = "open_read"
    /\ Step(m, <<>>)
    /\ local_id' = m.arg1
    /\ remote_id' = m.arg0
    /\ Return("Ok")
    /\ UNCHANGED <<argLocal, argRemote, fileLen, offset, statResponse>>
    /\ UNCHANGED <<authVars, walkVars>>

\* ---- send_and_expect_okay: the loop after write_message ----
AckPcs == {"stat_ack_header", "stat_ack_path", "push_ack_data", "push_ack_done", "quit_ack"}

\* MessageCommand::Okay => return Ok(response)
ExpectOkayReturns(m) == pc \in AckPcs /\ m.command = "OKAY"

\* the OKAY written back for an inbound packet
OkayReply == ADBTransportMessage("OKAY", local_id, remote_id, NoPayload)

\* a wait that tolerates an inbound WRTE without acknowledging it
ExpectOkayWriteUnanswered(m) ==
    /\ pc \in AckPcs /\ m.command = "WRTE"
    /\ Step(m, <<>>) /\ Goto(pc)
    /\ UNCHANGED <<local_id, remote_id, argLocal, argRemote, fileLen, offset, statResponse>>
    /\ UNCHANGED <<authVars, walkVars>>

\* MessageCommand::Write => acknowledge and keep waiting
ExpectOkayWrite(m) ==
    /\ pc \in AckPcs /\ m.command = "WRTE"
    /\ IF HasIds
         THEN Step(m, <<OkayReply>>) /\ Goto(pc)
         ELSE Step(m, <<>>) /\ Return("ADBRequestFailed")
    /\ UNCHANGED <<local_id, remote_id, argLocal, argRemote, fileLen, offset, statResponse>>
    /\ UNCHANGED <<authVars, walkVars>>

\* MessageCommand::Clse => keep waiting
ExpectOkayClse(m) ==
    /\ pc \in AckPcs /\ m.command = "CLSE"
    /\ Step(m, <<>>) /\ Goto(pc)
    /\ UNCHANGED <<local_id, remote_id, argLocal, argRemote, fileLen, offset, statResponse>>
    /\ UNCHANGED <<authVars, walkVars>>

\* other => Err(WrongResponseReceived)
ExpectOkayWrongResponse(m) ==
    /\ pc \in AckPcs /\ m.command \notin {"OKAY", "WRTE", "CLSE"}
    /\ Step(m, <<>>) /\ Return("WrongResponseReceived")
    /\ UNCHANGED <<local_id, remote_id, argLocal, argRemote, fileLen, offset, statResponse>>
    /\ UNCHANGED <<authVars, walkVars>>

\* a recv_and_reply_okay that acknowledges data packets only
RecvAndReplyOkayWriteOnly(m) ==
    IF m.command = "WRTE" THEN <<OkayReply>> ELSE <<>>

\* ---- recv_and_reply_okay: what it writes after reading m ----
RecvAndReplyOkay(m) ==
    IF m.command \in {"WRTE", "CLSE"} THEN <<OkayReply>> ELSE <<>>

\* ---- stat_with_explicit_ids ----
StatWithExplicitIds ==
    /\ Callable
    /\ IF HasIds
         THEN Call("stat", "stat_ack_header",
                   <<ADBTransportMessage("WRTE", local_id, remote_id,
                                         SyncFrame("STAT", Len(StatPath), <<>>))>>)
         ELSE CallFails("stat", "ADBRequestFailed")
    /\ FreshLocals
    /\ UNCHANGED <<local_id, remote_id>>
    /\ UNCHANGED <<authVars, walkVars>>

\* the STAT header was acknowledged: send the path
StatSendPath(m) ==
    /\ op = "stat" /\ pc = "stat_ack_header"
    /\ ExpectOkayReturns(m)
    /\ Step(m, <<ADBTransportMessage("WRTE", local_id, remote_id, Raw(StatPath))>>)
    /\ Goto("stat_ack_path")
    /\ UNCHANGED <<local_id, remote_id, argLocal, argRemote, fileLen, offset, statResponse>>
    /\ UNCHANGED <<authVars, walkVars>>

\* the path was acknowledged: wait for the reply
StatPathAcked(m) ==
    /\ op = "stat" /\ pc = "stat_ack_path"
    /\ ExpectOkayReturns(m)
    /\ Step(m, <<>>)
    /\ Goto("stat_recv")
    /\ UNCHANGED <<local_id, remote_id, argLocal, argRemote, fileLen, offset, statResponse>>
    /\ UNCHANGED <<authVars, walkVars>>

\* bincode_deserialize_from_slice(&payload[4..]): the slice panics on a payload
\* shorter than 4 bytes, the decoder needs three u32 after the skipped id
StatDeserialize(p) ==
    IF ByteLen(p) < 4 THEN "Panic"
    ELSE IF ByteLen(p) < 16 THEN "ConversionError"
    ELSE "Ok"

AdbStatResponse(p) ==
    <<p.arg, ReadU32(SubSeq(p.data, 1, 4)), ReadU32(SubSeq(p.data, 5, 8))>>

\* recv_and_reply_okay, then decode the reply
StatResponse(m) ==
    /\ op = "stat" /\ pc = "stat_recv"
    /\ Step(m, RecvAndReplyOkay(m))
    /\ Return(StatDeserialize(m.payload))
    /\ statResponse' = IF StatDeserialize(m.payload) = "Ok"
                         THEN AdbStatResponse(m.payload) ELSE <<>>
    /\ UNCHANGED <<local_id, remote_id, argLocal, argRemote, fileLen, offset>>
    /\ UNCHANGED <<authVars, walkVars>>

\* ---- push_file ----
Min(a, b) == IF a < b THEN a ELSE b

\* reader.read(&mut buffer): 0 at end of file, else between 1 byte and the
\* smaller of the buffer and what is left
ReadSizes(len, off) ==
    IF off >= len THEN {0} ELSE 1..Min(BUFFER_SIZE, len - off)

\* the bytes of the file are numbered, so that a chunk shows where it came from
FileBytes(off, n) == [i \in 1..n |-> off + i]

DataMessage(l, r, off, n) ==
    ADBTransportMessage("WRTE", l, r, SyncFrame("DATA", n, FileBytes(off, n)))

DoneMessage(l, r) ==
    ADBTransportMessage("WRTE", l, r, SyncFrame("DONE", 0, <<>>))

\* push_file(local_id, remote_id, reader): the first read and the first DATA.
\* Its caller passes the identifiers of the open stream.
PushFile(len, n) ==
    /\ Callable
    /\ HasIds
    /\ len \in 0..MaxFileLen
    /\ n \in ReadSizes(len, 0)
    /\ Call("push_file", "push_ack_data", <<DataMessage(local_id, remote_id, 0, n)>>)
    /\ argLocal' = local_id /\ argRemote' = remote_id
    /\ fileLen' = len /\ offset' = n
    /\ statResponse' = <<>>
    /\ UNCHANGED <<local_id, remote_id>>
    /\ UNCHANGED <<authVars, walkVars>>

\* reader.read(..)? fails on the first read
PushFileReadError(len) ==
    /\ Callable
    /\ HasIds
    /\ len \in 0..MaxFileLen
    /\ CallFails("push_file", "IOError")
    /\ argLocal' = local_id /\ argRemote' = remote_id
    /\ fileLen' = len /\ offset' = 0
    /\ statResponse' = <<>>
    /\ UNCHANGED <<local_id, remote_id>>
    /\ UNCHANGED <<authVars, walkVars>>

\* a DATA was acknowledged and the reader has more: Ok(size) => next DATA
PushData(m, n) ==
    /\ op = "push_file" /\ pc = "push_ack_data"
    /\ ExpectOkayReturns(m)
    /\ n \in ReadSizes(fileLen, offset) /\ n > 0
    /\ Step(m, <<DataMessage(argLocal, argRemote, offset, n)>>)
    /\ offset' = offset + n
    /\ Goto("push_ack_data")
    /\ UNCHANGED <<local_id, remote_id, argLocal, argRemote, fileLen, statResponse>>
    /\ UNCHANGED <<authVars, walkVars>>

\* a DATA was acknowledged and the reader is at end of file: Ok(0) => DONE
PushDone(m) ==
    /\ op = "push_file" /\ pc = "push_ack_data"
    /\ ExpectOkayReturns(m)
    /\ 0 \in ReadSizes(fileLen, offset)
    /\ Step(m, <<DoneMessage(argLocal, argRemote)>>)
    /\ Goto("push_ack_done")
    /\ UNCHANGED <<local_id, remote_id, argLocal, argRemote, fileLen, offset, statResponse>>
    /\ UNCHANGED <<authVars, walkVars>>

\* a DATA was acknowledged and the read fails: Err(e) => Err(IOError)
PushReadError(m) ==
    /\ op = "push_file" /\ pc = "push_ack_data"
    /\ ExpectOkayReturns(m)
    /\ Step(m, <<>>)
    /\ Return("IOError")
    /\ UNCHANGED <<local_id, remote_id, argLocal, argRemote, fileLen, offset, statResponse>>
    /\ UNCHANGED <<authVars, walkVars>>

\* the DONE was acknowledged: wait for the reply frame
PushDoneAcked(m) ==
    /\ op = "push_file" /\ pc = "push_ack_done"
    /\ ExpectOkayReturns(m)
    /\ Step(m, <<>>)
    /\ Goto("push_recv")
    /\ UNCHANGED <<local_id, remote_id, argLocal, argRemote, fileLen, offset, statResponse>>
    /\ UNCHANGED <<authVars, walkVars>>

\* the result push_file gives for the packet read after DONE was
\* acknowledged; "continue" is the Okay arm, which goes round the loop
PushReplyResult(m) ==
    CASE m.command = "WRTE" -> "Ok"
      [] m.command = "CLSE" -> "Ok"
      [] m.command = "OKAY" -> "continue"
      [] OTHER -> "ADBRequestFailed"

\* recv_and_reply_okay after DONE: Write | Clse => Ok, other => Err
PushReply(m) ==
    /\ op = "push_file" /\ pc = "push_recv"
    /\ PushReplyResult(m) # "continue"
    /\ Step(m, RecvAndReplyOkay(m))
    /\ Return(PushReplyResult(m))
    /\ UNCHANGED <<local_id, remote_id, argLocal, argRemote, fileLen, offset, statResponse>>
    /\ UNCHANGED <<authVars, walkVars>>

\* recv_and_reply_okay after DONE: Okay => continue; the loop reads the reader
\* again and, at end of file, writes DONE again
PushReplyOkay(m) ==
    /\ op = "push_file" /\ pc = "push_recv"
    /\ PushReplyResult(m) = "continue"
    /\ 0 \in ReadSizes(fileLen, offset)
    /\ Step(m, RecvAndReplyOkay(m) \o <<DoneMessage(argLocal, argRemote)>>)
    /\ Goto("push_ack_done")
    /\ UNCHANGED <<local_id, remote_id, argLocal, argRemote, fileLen, offset, statResponse>>
    /\ UNCHANGED <<authVars, walkVars>>

\* ---- end_transaction ----
QuitMessage(l, r) ==
    ADBTransportMessage("WRTE", l, r, SyncFrame("QUIT", 0, <<>>))

EndTransaction ==
    /\ Callable
    /\ IF HasIds
         THEN Call("end_transaction", "quit_ack", <<QuitMessage(local_id, remote_id)>>)
         ELSE CallFails("end_transaction", "ADBRequestFailed")
    /\ FreshLocals
    /\ UNCHANGED <<local_id, remote_id>>
    /\ UNCHANGED <<authVars, walkVars>>

\* the QUIT was acknowledged: read the packet to discard
QuitAcked(m) ==
    /\ op = "end_transaction" /\ pc = "quit_ack"
    /\ ExpectOkayReturns(m)
    /\ Step(m, <<>>)
    /\ Goto("quit_discard")
    /\ UNCHANGED <<local_id, remote_id, argLocal, argRemote, fileLen, offset, statResponse>>
    /\ UNCHANGED <<authVars, walkVars>>

\* let _discard_close = read_message()?; Ok(())
EndTransactionDiscard(m) ==
    /\ op = "end_transaction" /\ pc = "quit_discard"
    /\ Step(m, <<>>)
    /\ Return("Ok")
    /\ UNCHANGED <<local_id, remote_id, argLocal, argRemote, fileLen, offset, statResponse>>
    /\ UNCHANGED <<authVars, walkVars>>

NextStream ==
    \/ \E lid \in Ids : OpenSession(lid)
    \/ \E m \in StreamInputs : OpenSessionResponse(m)
    \/ \E m \in StreamInputs : ExpectOkayWrite(m)
    \/ \E m \in StreamInputs : ExpectOkayClse(m)
    \/ \E m \in StreamInputs : ExpectOkayWrongResponse(m)
    \/ StatWithExplicitIds
    \/ \E m \in StreamInputs : StatSendPath(m)
    \/ \E m \in StreamInputs : StatPathAcked(m)
    \/ \E m \in StreamInputs : StatResponse(m)
    \/ \E len \in 0..MaxFileLen : \E n \in 0..BUFFER_SIZE : PushFile(len, n)
    \/ \E len \in 0..MaxFileLen : PushFileReadError(len)
    \/ \E m \in StreamInputs : \E n \in 1..BUFFER_SIZE : PushData(m, n)
    \/ \E m \in StreamInputs : PushDone(m)
    \/ \E m \in StreamInputs : PushReadError(m)
    \/ \E m \in StreamInputs : PushDoneAcked(m)
    \/ \E m \in StreamInputs : PushReply(m)
    \/ \E m \in StreamInputs : PushReplyOkay(m)
    \/ EndTransaction
    \/ \E m \in StreamInputs : QuitAcked(m)
    \/ \E m \in StreamInputs : EndTransactionDiscard(m)

SpecStream == InitStream /\ [][NextStream]_vars

(***************************************************************************)
(* perform_sync: the directory walker of lib.rs.  Strings are sequences of *)
(* bytes (47 = '/', 46 = '.'); a local path below local_root is the        *)
(* sequence of its component names.                                        *)
(***************************************************************************)
\* bound: length of a local file
MaxLocalLen == 1

\* names of the entries the local tree may hold: a, b, c, d and the hidden
\* .h and .g
NodePaths ==
    { << <<97>> >>, << <<98>> >>, << <<46, 104>> >>,
      << <<97>>, <<99>> >>, << <<97>>, <<46, 103>> >>,
      << <<46, 104>>, <<100>> >> }

Absent == [kind |-> "absent", len |-> 0]
Entries ==
    {Absent, [kind |-> "dir", len |-> 0], [kind |-> "other", len |-> 0]}
    \cup {[kind |-> "file", len |-> n] : n \in 0..MaxLocalLen}

Parent(p) == SubSeq(p, 1, Len(p) - 1)

\* the trees a file system can hold: an entry exists only inside a directory.
\* To keep the family small, only b is ever a special file, hidden files are
\* empty and the entries below a directory are files or empty directories
\* (a and b can both be directories, a with the sub-directory a/c).
Trees ==
    {t \in [NodePaths -> Entries] :
        \A p \in NodePaths :
            /\ (Len(p) > 1 /\ t[Parent(p)].kind # "dir") => t[p] = Absent
            /\ t[p].kind = "other" => p = << <<98>> >>
            /\ (p[Len(p)][1] = 46 /\ t[p].kind = "file") => t[p].len = 0
            /\ (Len(p) > 1 /\ p[Len(p)][1] = 46) => t[p].kind # "dir"}

RemoteRoots == { <<47>>, <<47, 114>> }

\* fs::read_dir(current): the entries of directory `current`
ReadDir(t, current) ==
    {p \in NodePaths : Len(p) = Len(current) + 1 /\ Parent(p) = current /\ t[p] # Absent}

\* a test that skips nothing
ShouldSkipEntryNever(p) == FALSE

\* should_skip_entry: the file name starts with '.'
ShouldSkipEntry(p) == p[Len(p)][1] = 46

\* str::trim_end_matches('/')
RECURSIVE TrimEndSlashes(_)
TrimEndSlashes(str) ==
    IF str # <<>> /\ str[Len(str)] = 47
      THEN TrimEndSlashes(SubSeq(str, 1, Len(str) - 1))
      ELSE str

\* normalize_remote_dir_path
NormalizeRemoteDirPath(path) ==
    IF path = <<47>> THEN <<47>> ELSE TrimEndSlashes(path)

\* pieces.join("/")
RECURSIVE JoinSlash(_)
JoinSlash(pieces) ==
    IF pieces = <<>> THEN <<>>
    ELSE IF Len(pieces) = 1 THEN pieces[1]
    ELSE pieces[1] \o <<47>> \o JoinSlash(Tail(pieces))

\* build_remote_path(remote_root, relative)
BuildRemotePath(root, relative) ==
    LET pieces == SelectSeq(relative, LAMBDA part : part # <<>>)
    IN IF pieces = <<>> THEN root
       ELSE IF root = <<47>> THEN <<47>> \o JoinSlash(pieces)
       ELSE TrimEndSlashes(root) \o <<47>> \o JoinSlash(pieces)

\* directory_depth: the number of non-empty segments between slashes
DirectoryDepth(path) ==
    Cardinality({i \in 1..Len(path) : path[i] # 47 /\ (i = 1 \/ path[i - 1] = 47)})

\* String::cmp: byte-wise lexicographic order
RECURSIVE StrLess(_, _)
StrLess(x, y) ==
    IF y = <<>> THEN FALSE
    ELSE IF x = <<>> THEN TRUE
    ELSE IF Head(x) # Head(y) THEN Head(x) < Head(y)
    ELSE StrLess(Tail(x), Tail(y))

\* a comparator that orders by the string alone
DirBeforeByName(x, y) == StrLess(x, y)

\* the comparator of list.sort_by: depth first, then the string
DirBefore(x, y) ==
    \/ DirectoryDepth(x) < DirectoryDepth(y)
    \/ DirectoryDepth(x) = DirectoryDepth(y) /\ StrLess(x, y)

RECURSIVE SortDirs(_)
SortDirs(S) ==
    IF S = {} THEN <<>>
    ELSE LET first == CHOOSE x \in S : \A y \in S \ {x} : DirBefore(x, y)
         IN <<first>> \o SortDirs(S \ {first})

\* a collection that does not descend into the sub-directories
CollectRecursiveShallow(t, root, current) ==
    LET subdirs == {p \in ReadDir(t, current) : ~ShouldSkipEntry(p) /\ t[p].kind = "dir"}
    IN {NormalizeRemoteDirPath(BuildRemotePath(root, p)) : p \in subdirs}

\* collect_remote_directories_recursive: the directories inserted while
\* reading `current` and, recursively, its visible sub-directories
RECURSIVE CollectRecursive(_, _, _)
CollectRecursive(t, root, current) ==
    LET subdirs == {p \in ReadDir(t, current) : ~ShouldSkipEntry(p) /\ t[p].kind = "dir"}
    IN {NormalizeRemoteDirPath(BuildRemotePath(root, p)) : p \in subdirs}
       \cup UNION {CollectRecursive(t, root, p) : p \in subdirs}

\* collect_remote_directories
CollectRemoteDirectories(t, root) ==
    SortDirs({NormalizeRemoteDirPath(root)} \cup CollectRecursive(t, root, <<>>))

\* count_local_files
RECURSIVE CountLocalFiles(_, _)
RECURSIVE CountEntries(_, _)
CountEntries(t, entries) ==
    IF entries = {} THEN 0
    ELSE LET p == CHOOSE q \in entries : TRUE
             here == IF ShouldSkipEntry(p) THEN 0
                     ELSE IF t[p].kind = "dir" THEN CountLocalFiles(t, p)
                     ELSE IF t[p].kind = "file" THEN 1
                     ELSE 0
         IN here + CountEntries(t, entries \ {p})
CountLocalFiles(t, current) == CountEntries(t, ReadDir(t, current))

\* str::to_ascii_lowercase
ToAsciiLowercase(str) ==
    [i \in 1..Len(str) |-> IF str[i] >= 65 /\ str[i] <= 90 THEN str[i] + 32 ELSE str[i]]

\* str::contains
Contains(str, pat) ==
    \E i \in 0..(Len(str) - Len(pat)) : SubSeq(str, i + 1, i + Len(pat)) = pat

\* a test for "no such file" that compares the message as it is
AdbMissingFileCaseSensitive(message) ==
    Contains(message, <<110, 111, 32, 115, 117, 99, 104, 32, 102, 105, 108, 101>>)

\* adb_missing_file: "no such file", "not found", "does not exist",
\* "failed to lstat", "failed to stat"
AdbMissingFile(message) ==
    LET lower == ToAsciiLowercase(message)
    IN \/ Contains(lower, <<110, 111, 32, 115, 117, 99, 104, 32, 102, 105, 108, 101>>)
       \/ Contains(lower, <<110, 111, 116, 32, 102, 111, 117, 110, 100>>)
       \/ Contains(lower, <<100, 111, 101, 115, 32, 110, 111, 116, 32, 101, 120, 105, 115, 116>>)
       \/ Contains(lower, <<102, 97, 105, 108, 101, 100, 32, 116, 111, 32, 108, 115, 116, 97, 116>>)
       \/ Contains(lower, <<102, 97, 105, 108, 101, 100, 32, 116, 111, 32, 115, 116, 97, 116>>)

\* ---- what the device answers ----
\* device.stat(path): Ok(AdbStatResponse) or an error; ADBRequestFailed
\* carries a message ("No Such File", "denied").  A device answers all zero
\* for a path that does not exist, and mode 0o100644 with the size otherwise.
StatOk(mode, size) ==
    [ok |-> TRUE, kind |-> "Ok", mode |-> mode, size |-> size, message |-> <<>>]
StatErr(kind, message) ==
    [ok |-> FALSE, kind |-> kind, mode |-> 0, size |-> 0, message |-> message]
\* what device.push and device.shell_command return: Ok(()) or an error
Replied(res) ==
    [ok |-> res = "Ok", kind |-> res, mode |-> 0, size |-> 0, message |-> <<>>]

StatResults ==
    {StatOk(0, 0)}
    \cup {StatOk(33188, size) : size \in 0..MaxLocalLen}
    \cup {StatErr("ADBRequestFailed", msg) :
            msg \in { <<78, 111, 32, 83, 117, 99, 104, 32, 70, 105, 108, 101>>,
                      <<100, 101, 110, 105, 101, 100>> }}
    \cup {StatErr("IOError", <<>>)}

\* device.push / device.shell_command / ADBUSBDevice::new: Ok or an error
Outcomes == {"Ok", "Err"}

\* remote_metadata: Some(stat), None for a missing file, or the error
RemoteMetadata(st) ==
    IF st.ok THEN "Some"
    ELSE IF st.kind = "ADBRequestFailed" /\ AdbMissingFile(st.message) THEN "None"
    ELSE "Err"

\* file_is_unchanged, for a reply that remote_metadata did not turn into an error
FileIsUnchanged(st, len) ==
    IF RemoteMetadata(st) = "None" THEN FALSE
    ELSE IF st.size # len THEN FALSE
    ELSE TRUE

Request(kind, via, path, node, reply) ==
    [req |-> kind, via |-> via, path |-> path, node |-> node, reply |-> reply]

\* an ensure_remote_dir that does not consult created_dirs
EnsureRemoteDirAlways(remote_dir) ==
    LET normalized == NormalizeRemoteDirPath(remote_dir)
    IN [dir |-> normalized,
        created |-> created_dirs \cup {normalized},
        mkdir |-> normalized # <<47>> /\ ~dry_run,
        counted |-> normalized # <<47>>]

\* ensure_remote_dir(device, remote_dir, ..): what it does to created_dirs,
\* whether it runs mkdir -p and whether it counts the directory
EnsureRemoteDir(remote_dir) ==
    LET normalized == NormalizeRemoteDirPath(remote_dir)
        fresh == normalized \notin created_dirs
    IN [dir |-> normalized,
        created |-> created_dirs \cup {normalized},
        mkdir |-> fresh /\ normalized # <<47>> /\ ~dry_run,
        counted |-> fresh /\ normalized # <<47>>]

EnsureRequests(e, mk) ==
    IF e.mkdir THEN <<Request("MKDIR", "adb_device", e.dir, <<>>, Replied(mk))>> ELSE <<>>

\* an advance that counts without telling the sink
AdvanceSilently(current) ==
    /\ progress' = [progress EXCEPT !.processed_files = @ + 1]
    /\ UNCHANGED events

Advance(current) ==
    /\ progress' = [progress EXCEPT !.processed_files = @ + 1]
    /\ events' = Append(events,
          [processed_files |-> progress.processed_files + 1,
           total_files |-> progress.total_files,
           current_file |-> current, dry_run |-> dry_run])

\* the request fails with `error`: every device it holds is dropped
Abort(error) ==
    /\ wpc' = "failed" /\ werror' = error
    /\ shell_device' = IF shell_device = "open" THEN "dropped" ELSE shell_device
    /\ adb_device' = IF adb_device = "open" THEN "dropped" ELSE adb_device

InitWalk ==
    /\ hs = "Ready" /\ hsError = "none" /\ hsRead = <<>> /\ hsWritten = <<>>
    /\ DeviceNew
    /\ tree \in Trees
    /\ dry_run \in BOOLEAN
    /\ remote_root \in RemoteRoots
    /\ wpc = "start" /\ werror = "none"
    /\ remote_directories = <<>> /\ dirIndex = 0
    /\ created_dirs = {}
    /\ stats = SyncStats
    /\ progress = [processed_files |-> 0, total_files |-> 0]
    /\ events = <<>> /\ requests = <<>> /\ stack = <<>>
    /\ shell_device = "none" /\ adb_device = "none"
    /\ device_path = <<>> /\ normalized_path = <<>>

\* a count that takes every collected directory, the root included
DirectoriesToCreateWithRoot(dirs) == Len(dirs)

\* ---- perform_sync up to the call of create_remote_directories ----
DirectoriesToCreate(dirs) ==
    Cardinality({i \in 1..Len(dirs) : NormalizeRemoteDirPath(dirs[i]) # <<47>>})

\* detect_android_device()? fails: nothing was counted or emitted
PerformSyncNoDevice ==
    /\ wpc = "start"
    /\ Abort("DeviceNotFound")
    /\ UNCHANGED <<tree, dry_run, remote_root, remote_directories, dirIndex, created_dirs,
                   stats, progress, events, requests, stack>>
    /\ UNCHANGED <<authVars, devVars, pathVars>>

\* count, collect, ProgressReporter::new (emits the first event), then the
\* start of create_remote_directories: needs_device and the shell device
PerformSync(usb) ==
    /\ wpc = "start"
    /\ usb \in Outcomes
    /\ LET dirs == CollectRemoteDirectories(tree, remote_root)
           total == CountLocalFiles(tree, <<>>) + DirectoriesToCreate(dirs)
           needs_device == ~dry_run /\ DirectoriesToCreate(dirs) > 0
       IN /\ remote_directories' = dirs
          /\ progress' = [processed_files |-> 0, total_files |-> total]
          /\ events' = <<[processed_files |-> 0, total_files |-> total,
                          current_file |-> <<>>, dry_run |-> dry_run]>>
          /\ IF needs_device /\ usb = "Err"
               THEN /\ wpc' = "failed" /\ werror' = "Usb"
                    /\ UNCHANGED <<shell_device, dirIndex>>
               ELSE /\ wpc' = "create_dirs" /\ werror' = "none"
                    /\ shell_device' = IF needs_device THEN "open" ELSE "none"
                    /\ dirIndex' = 1
    /\ UNCHANGED <<tree, dry_run, remote_root, created_dirs, stats, requests, stack, adb_device>>
    /\ UNCHANGED <<authVars, devVars, pathVars>>

\* ---- create_remote_directories: one iteration of `for dir in directories` ----
CreateRemoteDirectory(res) ==
    /\ wpc = "create_dirs"
    /\ dirIndex <= Len(remote_directories)
    /\ res \in Outcomes
    /\ LET normalized == NormalizeRemoteDirPath(remote_directories[dirIndex])
           mkdir == shell_device = "open" /\ ~dry_run
           req == Request("MKDIR", "shell_device", normalized, <<>>, Replied(res))
       IN IF normalized \in created_dirs
            THEN /\ dirIndex' = dirIndex + 1
                 /\ UNCHANGED <<created_dirs, stats, progress, events, requests,
                                wpc, werror, shell_device, adb_device>>
          ELSE IF normalized = <<47>>
            THEN /\ dirIndex' = dirIndex + 1
                 /\ created_dirs' = created_dirs \cup {normalized}
                 /\ UNCHANGED <<stats, progress, events, requests,
                                wpc, werror, shell_device, adb_device>>
          ELSE IF mkdir /\ res = "Err"
            THEN /\ created_dirs' = created_dirs \cup {normalized}
                 /\ requests' = Append(requests, req)
                 /\ Abort("Adb")
                 /\ UNCHANGED <<dirIndex, stats, progress, events>>
          ELSE /\ created_dirs' = created_dirs \cup {normalized}
               /\ requests' = IF mkdir THEN Append(requests, req) ELSE requests
               /\ stats' = [stats EXCEPT !.directories_created = @ + 1]
               /\ Advance(normalized)
               /\ dirIndex' = dirIndex + 1
               /\ UNCHANGED <<wpc, werror, shell_device, adb_device>>
    /\ UNCHANGED <<tree, dry_run, remote_root, remote_directories, stack>>
    /\ UNCHANGED <<authVars, devVars, pathVars>>

\* create_remote_directories returns (its shell device is dropped), the sync
\* device is created, ensure_remote_dir(remote_root) runs and sync_directory
\* is entered for local_root
OpenSyncDevice(usb, mk) ==
    /\ wpc = "create_dirs"
    /\ dirIndex > Len(remote_directories)
    /\ usb \in Outcomes /\ mk \in Outcomes
    /\ LET e == EnsureRemoteDir(remote_root)
           dropped == IF shell_device = "open" THEN "dropped" ELSE shell_device
       IN IF usb = "Err"
            THEN /\ wpc' = "failed" /\ werror' = "Usb"
                 /\ shell_device' = dropped
                 /\ UNCHANGED <<adb_device, created_dirs, stats, requests, stack>>
          ELSE IF e.mkdir /\ mk = "Err"
            THEN /\ wpc' = "failed" /\ werror' = "Adb"
                 /\ shell_device' = dropped /\ adb_device' = "dropped"
                 /\ created_dirs' = e.created
                 /\ requests' = requests \o EnsureRequests(e, mk)
                 /\ UNCHANGED <<stats, stack>>
          ELSE /\ wpc' = "walk" /\ werror' = "none"
               /\ shell_device' = dropped /\ adb_device' = "open"
               /\ created_dirs' = e.created
               /\ requests' = requests \o EnsureRequests(e, mk)
               /\ stats' = [stats EXCEPT !.directories_created =
                                            @ + (IF e.counted THEN 1 ELSE 0)]
               /\ stack' = <<[dir |-> <<>>, todo |-> ReadDir(tree, <<>>)]>>
    /\ UNCHANGED <<tree, dry_run, remote_root, remote_directories, dirIndex, progress, events>>
    /\ UNCHANGED <<authVars, devVars, pathVars>>

\* ---- sync_directory: one iteration of `for entry in fs::read_dir(current)` ----
Top == stack[Len(stack)]

\* the entry p of the directory being read is taken, in any order
Visit(p) ==
    /\ wpc = "walk"
    /\ stack # <<>>
    /\ p \in Top.todo

\* the frames after p was taken from the directory being read
Taken(p) == [stack EXCEPT ![Len(stack)].todo = @ \ {p}]

\* should_skip_entry => skipped_entries += 1
SyncHiddenEntry(p) ==
    /\ Visit(p)
    /\ ShouldSkipEntry(p)
    /\ stats' = [stats EXCEPT !.skipped_entries = @ + 1]
    /\ stack' = Taken(p)
    /\ UNCHANGED <<tree, dry_run, remote_root, wpc, werror, remote_directories, dirIndex,
                   created_dirs, progress, events, requests, shell_device, adb_device>>
    /\ UNCHANGED <<authVars, devVars, pathVars>>

\* neither directory nor file => skipped_entries += 1
SyncOtherEntry(p) ==
    /\ Visit(p)
    /\ ~ShouldSkipEntry(p)
    /\ tree[p].kind = "other"
    /\ stats' = [stats EXCEPT !.skipped_entries = @ + 1]
    /\ stack' = Taken(p)
    /\ UNCHANGED <<tree, dry_run, remote_root, wpc, werror, remote_directories, dirIndex,
                   created_dirs, progress, events, requests, shell_device, adb_device>>
    /\ UNCHANGED <<authVars, devVars, pathVars>>

\* metadata.is_dir(): ensure_remote_dir, then recurse into the directory
SyncSubdirectory(p, mk) ==
    /\ Visit(p)
    /\ ~ShouldSkipEntry(p)
    /\ tree[p].kind = "dir"
    /\ mk \in Outcomes
    /\ LET e == EnsureRemoteDir(BuildRemotePath(remote_root, p))
       IN /\ created_dirs' = e.created
          /\ requests' = requests \o EnsureRequests(e, mk)
          /\ IF e.mkdir /\ mk = "Err"
               THEN /\ Abort("Adb")
                    /\ UNCHANGED <<stats, stack>>
               ELSE /\ stats' = [stats EXCEPT !.directories_created =
                                                 @ + (IF e.counted THEN 1 ELSE 0)]
                    /\ stack' = Append(Taken(p), [dir |-> p, todo |-> ReadDir(tree, p)])
                    /\ UNCHANGED <<wpc, werror, shell_device, adb_device>>
    /\ UNCHANGED <<tree, dry_run, remote_root, remote_directories, dirIndex, progress, events>>
    /\ UNCHANGED <<authVars, devVars, pathVars>>

\* a push_file that counts an unchanged file as synced
PushFileOutcomeCountsSkipped(remote_file, p, len, st, pushed) ==
    LET stat == Request("STAT", "adb_device", remote_file, p, st)
        send == Request("SEND", "adb_device", remote_file, p, Replied(pushed))
    IN IF RemoteMetadata(st) = "Err"
         THEN [requests |-> <<stat>>, end |-> "Err"]
       ELSE IF FileIsUnchanged(st, len)
         THEN [requests |-> <<stat>>, end |-> "synced"]
       ELSE IF dry_run
         THEN [requests |-> <<stat>>, end |-> "synced"]
       ELSE IF pushed = "Err"
         THEN [requests |-> <<stat, send>>, end |-> "Err"]
       ELSE [requests |-> <<stat, send>>, end |-> "synced"]

\* a push_file that uploads in a dry run too
PushFileOutcomeSendsInDryRun(remote_file, p, len, st, pushed) ==
    LET stat == Request("STAT", "adb_device", remote_file, p, st)
        send == Request("SEND", "adb_device", remote_file, p, Replied(pushed))
    IN IF RemoteMetadata(st) = "Err"
         THEN [requests |-> <<stat>>, end |-> "Err"]
       ELSE IF FileIsUnchanged(st, len)
         THEN [requests |-> <<stat>>, end |-> "skipped"]
       ELSE IF pushed = "Err"
         THEN [requests |-> <<stat, send>>, end |-> "Err"]
       ELSE [requests |-> <<stat, send>>, end |-> "synced"]

\* push_file of lib.rs for a file of length len whose STAT is answered by st
\* and whose upload ends with pushed: the requests it issues, how it ends
\* ("skipped", "synced" or "Err") 
PushFileOutcome(remote_file, p, len, st, pushed) ==
    LET stat == Request("STAT", "adb_device", remote_file, p, st)
        send == Request("SEND", "adb_device", remote_file, p, Replied(pushed))
    IN IF RemoteMetadata(st) = "Err"
         THEN [requests |-> <<stat>>, end |-> "Err"]
       ELSE IF FileIsUnchanged(st, len)
         THEN [requests |-> <<stat>>, end |-> "skipped"]
       ELSE IF dry_run
         THEN [requests |-> <<stat>>, end |-> "synced"]
       ELSE IF pushed = "Err"
         THEN [requests |-> <<stat, send>>, end |-> "Err"]
       ELSE [requests |-> <<stat, send>>, end |-> "synced"]

\* metadata.is_file(): ensure_remote_dir(parent), push_file, file_processed
SyncFile(p, mk, st, pushed) ==
    /\ Visit(p)
    /\ ~ShouldSkipEntry(p)
    /\ tree[p].kind = "file"
    /\ mk \in Outcomes /\ st \in StatResults /\ pushed \in Outcomes
    /\ LET remote_file == BuildRemotePath(remote_root, p)
           e == EnsureRemoteDir(BuildRemotePath(remote_root, Parent(p)))
           dirs == IF e.counted THEN 1 ELSE 0
           out == PushFileOutcome(remote_file, p, tree[p].len, st, pushed)
       IN /\ created_dirs' = e.created
          /\ IF e.mkdir /\ mk = "Err"
               THEN /\ requests' = requests \o EnsureRequests(e, mk)
                    /\ Abort("Adb")
                    /\ UNCHANGED <<stats, stack, progress, events>>
             ELSE IF out.end = "Err"
               THEN /\ requests' = requests \o EnsureRequests(e, mk) \o out.requests
                    /\ stats' = [stats EXCEPT !.directories_created = @ + dirs]
                    /\ Abort("Adb")
                    /\ UNCHANGED <<stack, progress, events>>
             ELSE /\ requests' = requests \o EnsureRequests(e, mk) \o out.requests
                  /\ stats' =
                       IF out.end = "synced"
                         THEN [stats EXCEPT !.directories_created = @ + dirs,
                                            !.files_synced = @ + 1,
                                            !.bytes_uploaded = @ + tree[p].len]
                         ELSE [stats EXCEPT !.directories_created = @ + dirs]
                  /\ Advance(remote_file)
                  /\ stack' = Taken(p)
                  /\ UNCHANGED <<wpc, werror, shell_device, adb_device>>
    /\ UNCHANGED <<tree, dry_run, remote_root, remote_directories, dirIndex>>
    /\ UNCHANGED <<authVars, devVars, pathVars>>

\* the directory is exhausted: sync_directory returns Ok(()); when it was the
\* call for local_root, perform_sync returns the summary and drops the device
SyncDirectoryReturn ==
    /\ wpc = "walk"
    /\ stack # <<>>
    /\ Top.todo = {}
    /\ stack' = SubSeq(stack, 1, Len(stack) - 1)
    /\ IF Len(stack) = 1
         THEN wpc' = "done" /\ adb_device' = "dropped"
         ELSE UNCHANGED <<wpc, adb_device>>
    /\ UNCHANGED <<tree, dry_run, remote_root, werror, remote_directories, dirIndex,
                   created_dirs, stats, progress, events, requests, shell_device>>
    /\ UNCHANGED <<authVars, devVars, pathVars>>

NextWalk ==
    \/ PerformSyncNoDevice
    \/ \E usb \in Outcomes : PerformSync(usb)
    \/ \E res \in Outcomes : CreateRemoteDirectory(res)
    \/ \E usb \in Outcomes, mk \in Outcomes : OpenSyncDevice(usb, mk)
    \/ \E p \in NodePaths : SyncHiddenEntry(p)
    \/ \E p \in NodePaths : SyncOtherEntry(p)
    \/ \E p \in NodePaths, mk \in Outcomes : SyncSubdirectory(p, mk)
    \/ \E p \in NodePaths, mk \in Outcomes, st \in StatResults, pushed \in Outcomes :
          SyncFile(p, mk, st, pushed)
    \/ SyncDirectoryReturn

SpecWalk == InitWalk /\ [][NextWalk]_vars

(***************************************************************************)
(* normalize_remote_path: strings are sequences of bytes (47 = '/',        *)
(* 92 = '\', 46 = '.', 32 = ' ', 97 = 'a').                                *)
(***************************************************************************)
\* bound: length of the device path
MaxPathLen == 4

PathChars == {47, 92, 46, 32, 97}
RECURSIVE Strings(_)
Strings(n) ==
    IF n = 0 THEN { <<>> }
    ELSE Strings(n - 1) \cup {Append(str, c) : str \in Strings(n - 1), c \in PathChars}

\* str::trim: white space is removed at both ends
RECURSIVE TrimStart(_)
TrimStart(str) ==
    IF str # <<>> /\ Head(str) = 32 THEN TrimStart(Tail(str)) ELSE str
RECURSIVE TrimEnd(_)
TrimEnd(str) ==
    IF str # <<>> /\ str[Len(str)] = 32 THEN TrimEnd(SubSeq(str, 1, Len(str) - 1)) ELSE str
Trim(str) == TrimEnd(TrimStart(str))

\* trimmed.replace('\\', "/")
Sanitize(str) == [i \in 1..Len(str) |-> IF str[i] = 92 THEN 47 ELSE str[i]]

\* sanitized.split('/'): the segments between the slashes, empty ones included
RECURSIVE Split(_, _)
Split(str, segment) ==
    IF str = <<>> THEN <<segment>>
    ELSE IF Head(str) = 47 THEN <<segment>> \o Split(Tail(str), <<>>)
    ELSE Split(Tail(str), Append(segment, Head(str)))

\* the loop over the segments: "" and "." are dropped, ".." pops, others are pushed
RECURSIVE Parts(_, _)
Parts(segments, parts) ==
    IF segments = <<>> THEN parts
    ELSE LET segment == Head(segments)
         IN IF segment = <<>> \/ segment = <<46>>
              THEN Parts(Tail(segments), parts)
            ELSE IF segment = <<46, 46>>
              THEN Parts(Tail(segments),
                         IF parts = <<>> THEN parts ELSE SubSeq(parts, 1, Len(parts) - 1))
            ELSE Parts(Tail(segments), Append(parts, segment))

\* normalize_remote_path(path): Err(InvalidRemotePath) or Ok(String)
NormalizeRemotePath(path) ==
    LET trimmed == Trim(path)
        parts == Parts(Split(Sanitize(trimmed), <<>>), <<>>)
    IN IF trimmed = <<>> THEN [ok |-> FALSE, value |-> <<>>]
       ELSE IF parts = <<>> THEN [ok |-> TRUE, value |-> <<47>>]
       ELSE [ok |-> TRUE, value |-> <<47>> \o JoinSlash(parts)]

InitPath ==
    /\ hs = "Ready" /\ hsError = "none" /\ hsRead = <<>> /\ hsWritten = <<>>
    /\ DeviceNew
    /\ tree = <<>> /\ dry_run = FALSE /\ remote_root = <<47>>
    /\ wpc = "idle" /\ werror = "none"
    /\ remote_directories = <<>> /\ dirIndex = 0
    /\ created_dirs = {}
    /\ stats = SyncStats
    /\ progress = [processed_files |-> 0, total_files |-> 0]
    /\ events = <<>> /\ requests = <<>> /\ stack = <<>>
    /\ shell_device = "none" /\ adb_device = "none"
    /\ device_path \in Strings(MaxPathLen)
    /\ normalized_path = <<>>

\* the path is normalized
Normalize ==
    /\ normalized_path = <<>>
    /\ normalized_path' = <<NormalizeRemotePath(device_path)>>
    /\ UNCHANGED device_path
    /\ UNCHANGED <<authVars, devVars, tree, dry_run, remote_root, wpc, werror,
                   remote_directories, dirIndex, created_dirs, stats, progress, events,
                   requests, stack, shell_device, adb_device>>

\* a path that was returned is normalized again
NormalizeAgain ==
    /\ Len(normalized_path) = 1
    /\ normalized_path[1].ok
    /\ normalized_path' = Append(normalized_path, NormalizeRemotePath(normalized_path[1].value))
    /\ UNCHANGED device_path
    /\ UNCHANGED <<authVars, devVars, tree, dry_run, remote_root, wpc, werror,
                   remote_directories, dirIndex, created_dirs, stats, progress, events,
                   requests, stack, shell_device, adb_device>>

NextPath == Normalize \/ NormalizeAgain

SpecPath == InitPath /\ [][NextPath]_vars

(***************************************************************************)
(* Properties of auth_handshake (SpecAuth)                                 *)
(***************************************************************************)
IsToken(m) == m.command = "AUTH" /\ m.arg0 = AUTH_TOKEN
IsAuthReply(m, kind) == m.command = "AUTH" /\ m.arg0 = kind
Count(s, P(_)) == Cardinality({i \in 1..Len(s) : P(s[i])})
IsSignatureReply(m) == IsAuthReply(m, AUTH_SIGNATURE)
IsPublicKeyReply(m) == IsAuthReply(m, AUTH_RSAPUBLICKEY)

\* C1: when the device sends TOKEN, TOKEN, CNXN the host answers the first
\* TOKEN with AUTH/SIGNATURE and the second with AUTH/RSAPUBLICKEY carrying
\* the NUL-terminated public key, and the handshake ends Ready.
C1_SecondTokenGetsPublicKey ==
    (Len(hsRead) = 3 /\ IsToken(hsRead[1]) /\ IsToken(hsRead[2]) /\ hsRead[3].command = "CNXN")
    => /\ hs = "Ready"
       /\ hsWritten =
            << ADBTransportMessage("AUTH", AUTH_SIGNATURE, 0, Sign(hsRead[1].payload)),
               ADBTransportMessage("AUTH", AUTH_RSAPUBLICKEY, 0, AndroidPubkeyEncode \o <<0>>) >>

\* C2: whatever the device sends, the host writes at most one AUTH/SIGNATURE
\* and at most one AUTH/RSAPUBLICKEY, hence at most two AUTH replies.
C2_AtMostTwoAuthReplies ==
    /\ Count(hsWritten, IsSignatureReply) <= 1
    /\ Count(hsWritten, IsPublicKeyReply) <= 1
    /\ Len(hsWritten) <= 2

\* C3: when the device sends one TOKEN and then CNXN, the host writes exactly
\* one packet, AUTH with arg0 = SIGNATURE and the signature of the token as
\* payload, and the handshake ends Ready.
C3_TokenThenCnxn ==
    (Len(hsRead) = 2 /\ IsToken(hsRead[1]) /\ hsRead[2].command = "CNXN")
    => /\ hs = "Ready"
       /\ hsError = "none"
       /\ hsWritten = << ADBTransportMessage("AUTH", 2, 0, Sign(hsRead[1].payload)) >>

C3_Witness ==
    /\ Len(hsRead) = 2 /\ IsToken(hsRead[1]) /\ hsRead[2].command = "CNXN"
    /\ hs = "Ready"
    /\ Len(hsWritten) = 1

\* a step of the loop that consumes one packet, and that packet
AuthConsumes == hs = "running" /\ Len(hsRead') = Len(hsRead) + 1
Consumed == hsRead'[Len(hsRead')]
IsStray(m) == m.command \in {"OKAY", "CLSE", "WRTE"}

\* C13: an inbound OKAY, CLSE or WRTE during the handshake is ignored: no
\* packet is written in response, the handshake does not fail and stays in
\* its loop to read the next packet, wherever the stray packet comes.
C13_StrayPacketsIgnored ==
    [][(AuthConsumes /\ IsStray(Consumed))
         => /\ hsWritten' = hsWritten
            /\ hs' = "running"
            /\ hsError' = "none"]_vars

C13_Witness ==
    /\ Len(hsRead) = 4
    /\ hsRead[1].command = "OKAY" /\ IsToken(hsRead[2])
    /\ hsRead[3].command = "WRTE" /\ hsRead[4].command = "CNXN"
    /\ hs = "Ready"
    /\ Len(hsWritten) = 1

\* the packets the handshake has no use for: OPEN, SYNC, and an AUTH whose
\* arg0 is neither TOKEN nor RSAPUBLICKEY
IsUnsupportedAuth(m) == m.command = "AUTH" /\ m.arg0 \notin {AUTH_TOKEN, AUTH_RSAPUBLICKEY}
IsOtherCommand(m) == m.command \notin {"CNXN", "AUTH", "OKAY", "CLSE", "WRTE"}

\* C14 (as claimed): any packet that is not CNXN, AUTH/TOKEN, AUTH/RSAPUBLICKEY,
\* OKAY, CLSE or WRTE ends the handshake with the unexpected-command error
\* (WrongResponseReceived), and nothing is written in response.
C14_OtherPacketIsUnexpectedCommand ==
    [][(AuthConsumes /\ (IsOtherCommand(Consumed) \/ IsUnsupportedAuth(Consumed)))
         => /\ hs' = "Failed"
            /\ hsError' = "WrongResponseReceived"
            /\ hsWritten' = hsWritten]_vars

\* C14 (amended): OPEN or SYNC end the handshake with the unexpected-command
\* error, an AUTH with another arg0 (such as SIGNATURE) ends it with
\* ADBRequestFailed; in both cases nothing is written in response.
C14_OtherPacketFails ==
    [][(AuthConsumes /\ (IsOtherCommand(Consumed) \/ IsUnsupportedAuth(Consumed)))
         => /\ hs' = "Failed"
            /\ hsError' = IF IsUnsupportedAuth(Consumed)
                             THEN "ADBRequestFailed" ELSE "WrongResponseReceived"
            /\ hsWritten' = hsWritten]_vars

C14_Witness ==
    /\ Len(hsRead) = 2
    /\ IsToken(hsRead[1])
    /\ hsRead[2].command = "AUTH" /\ hsRead[2].arg0 = AUTH_SIGNATURE
    /\ hs = "Failed" /\ hsError = "ADBRequestFailed"
    /\ Len(hsWritten) = 1

\* C15: when the device sends nothing more before CNXN, the pending read
\* expires and the handshake fails with the timeout error, also after only
\* stray packets or after an AUTH reply; hence the handshake always ends,
\* Ready or failed, once the device has no more packets to send.
C15_SilenceEndsInTimeout ==
    /\ []((hs = "running" /\ hsRead # <<>>) => ENABLED AuthReadTimeout)
    /\ [][(hs = "running" /\ hsRead' = hsRead /\ hs' # hs)
            => /\ hs' = "Failed"
               /\ hsError' = ReadMessageWithTimeoutExpired
               /\ hsWritten' = hsWritten]_vars
    /\ <>(hs \in {"Ready", "Failed"})

C15_Witness ==
    /\ hs = "Failed" /\ hsError = ReadMessageWithTimeoutExpired
    /\ Len(hsRead) = 2
    /\ IsToken(hsRead[1]) /\ IsStray(hsRead[2])
    /\ Len(hsWritten) = 1

(***************************************************************************)
(* Properties of the stream layer and the sync sub-protocol (SpecStream)   *)
(***************************************************************************)
Returned(name) == op = name /\ pc = "idle"

\* C4: open_session reads exactly one packet after OPEN; an OKAY records the
\* stream pair and succeeds, a CLSE fails with StreamRefused and records no
\* stream identifiers.
C4_OpenOkayOrRefused ==
    Returned("open_session")
    => /\ nread = 1
       /\ lastRead.command = "OKAY"
            => (result = "Ok" /\ remote_id = lastRead.arg0 /\ local_id = lastRead.arg1)
       /\ lastRead.command = "CLSE"
            => (result = "StreamRefused" /\ local_id = None /\ remote_id = None)

\* a step in which send_and_expect_okay returns Ok: it leaves the wait other
\* than by its own error, or its caller goes on to write the next WRTE
AckWaitEndsOk ==
    /\ pc \in AckPcs
    /\ \/ pc' \notin {pc, "idle"}
       \/ pc' = pc /\ Len(written') > Len(written)
                   /\ written'[Len(written')].command = "WRTE"
       \/ pc' = "idle" /\ result' = "IOError"

\* C5: send_and_expect_okay returns success only on an OKAY whose arg0 is the
\* stream's remote_id and whose arg1 is its local_id.
C5_AckCarriesStreamIds ==
    [][AckWaitEndsOk =>
         /\ lastRead'.command = "OKAY"
         /\ lastRead'.arg0 = remote_id
         /\ lastRead'.arg1 = local_id]_vars

\* C6: at most one outbound WRTE is unacknowledged at any time: a WRTE is
\* written only after the OKAY for the previous one was read.
C6_OneUnackedWrte == Len(unacked) <= 1

\* C7: after DONE was acknowledged push_file reads one reply frame and
\* returns Ok only if it is the sync OKAY frame; a FAIL frame (in a WRTE)
\* makes push_file return an error.
C7_FailReplyIsAnError ==
    (Returned("push_file") /\ lastRead.command = "WRTE")
    => (result = "Ok" <=> lastRead.payload.id = "OKAY")

\* the WRTE packets among those written
Wrtes(ws) == SelectSeq(ws, LAMBDA m : m.command = "WRTE")
RECURSIVE Concat(_)
Concat(fs) == IF fs = <<>> THEN <<>> ELSE Head(fs).payload.data \o Concat(Tail(fs))
IsData(m) == m.payload.id = "DATA"
IsDone(m) == m.payload.id = "DONE"

\* C9: push_file sends the file as DATA frames in file order, each with
\* arg = its number of bytes <= BUFFER_SIZE, together making up the file; then
\* exactly one DONE, and no DATA or DONE after it.
C9_ChunksThenOneDone ==
    op = "push_file" =>
      LET w == Wrtes(written)
          d == SelectSeq(w, IsData)
      IN /\ \A i \in 1..Len(w) : IsData(w[i]) \/ IsDone(w[i])
         /\ \A i \in 1..Len(d) : /\ d[i].payload.arg = Len(d[i].payload.data)
                                 /\ d[i].payload.arg <= BUFFER_SIZE
         /\ Concat(d) = FileBytes(0, offset)
         /\ Count(w, IsDone) <= 1
         /\ \A i \in 1..Len(w) : IsDone(w[i]) => (i = Len(w) /\ offset = fileLen)
         /\ (pc = "idle" /\ result = "Ok") => Count(w, IsDone) = 1

\* C10: end_transaction sends WRTE{QUIT, 0}, then closes the stream: it sends
\* CLSE arg0 = local_id arg1 = remote_id and discards one inbound packet.
C10_QuitThenClose ==
    (Returned("end_transaction") /\ result = "Ok")
    => /\ Len(written) >= 2
       /\ written[1] = QuitMessage(local_id, remote_id)
       /\ written[Len(written)].command = "CLSE"
       /\ written[Len(written)].arg0 = local_id
       /\ written[Len(written)].arg1 = remote_id

\* a step in which an operation blocked in `pcs` reads one packet
ReadsIn(pcs) == pc \in pcs /\ nread' = nread + 1
\* the packets written during the step
WrittenInStep == SubSeq(written', Len(written) + 1, Len(written'))
IsOkay(m) == m.command = "OKAY"

\* C11: while send_and_expect_okay waits, an inbound WRTE is answered with
\* exactly one OKAY (arg0 = local_id, arg1 = remote_id, empty payload) and the
\* wait goes on; an inbound CLSE gets no reply and the wait goes on; CNXN,
\* AUTH, OPEN or SYNC end the wait with the unexpected-command error
\* (WrongResponseReceived) and no reply.
C11_WaitToleratesWrteAndClse ==
    [][ReadsIn(AckPcs) =>
         /\ lastRead'.command = "WRTE"
              => /\ WrittenInStep =
                      <<ADBTransportMessage("OKAY", local_id, remote_id, NoPayload)>>
                 /\ pc' = pc /\ result' = "none"
         /\ lastRead'.command = "CLSE"
              => /\ WrittenInStep = <<>>
                 /\ pc' = pc /\ result' = "none"
         /\ lastRead'.command \in {"CNXN", "AUTH", "OPEN", "SYNC"}
              => /\ WrittenInStep = <<>>
                 /\ pc' = "idle" /\ result' = "WrongResponseReceived"]_vars

C11_Witness ==
    /\ pc \in AckPcs /\ nread = 2
    /\ lastRead.command = "WRTE"
    /\ local_id # remote_id
    /\ written[Len(written)] = ADBTransportMessage("OKAY", local_id, remote_id, NoPayload)
    /\ written[Len(written) - 1].command = "WRTE"

\* C12: recv_and_reply_okay reads exactly one packet; for a WRTE or a CLSE it
\* writes exactly one OKAY (arg0 = local_id, arg1 = remote_id) before it hands
\* the packet to its caller; for every other command it writes no OKAY; the
\* caller decides on the packet that was read.
C12_ReadAckRepliesToWrteAndClse ==
    [][ReadsIn({"stat_recv", "push_recv"}) =>
         /\ pc' # pc
         /\ IF lastRead'.command \in {"WRTE", "CLSE"}
              THEN /\ Len(WrittenInStep) >= 1
                   /\ WrittenInStep[1] =
                        ADBTransportMessage("OKAY", local_id, remote_id, NoPayload)
                   /\ Count(WrittenInStep, IsOkay) = 1
              ELSE Count(WrittenInStep, IsOkay) = 0
         /\ pc = "stat_recv" => result' = StatDeserialize(lastRead'.payload)
         /\ pc = "push_recv" =>
              \/ result' = PushReplyResult(lastRead')
              \/ PushReplyResult(lastRead') = "continue" /\ result' = "none"]_vars

C12_Witness ==
    /\ Returned("push_file") /\ result = "Ok"
    /\ lastRead.command = "CLSE"
    /\ local_id # remote_id
    /\ written[Len(written)] = ADBTransportMessage("OKAY", local_id, remote_id, NoPayload)

\* C24: after a successful open_session the stored local_id is the nonzero
\* value sent as arg0 of the OPEN packet, and the stored remote_id is the arg0
\* of the peer's response, whatever the peer answers.
C24_SessionKeepsItsLocalId ==
    (Returned("open_session") /\ result = "Ok") =>
        /\ written[1].command = "OPEN"
        /\ local_id = written[1].arg0
        /\ local_id # 0
        /\ remote_id = lastRead.arg0

\* C25: the stream identifiers are present exactly while a stream is open:
\* absent before the first open_session, present after a successful one, and
\* absent again after end_transaction has ended the stream, so that a later
\* stream operation fails in get_local_id instead of writing to the closed
\* stream.
C25_IdsOnlyWhileOpen ==
    /\ nops = 0 => (local_id = None /\ remote_id = None)
    /\ (Returned("open_session") /\ result = "Ok") => HasIds
    /\ (Returned("end_transaction") /\ result = "Ok") =>
          (local_id = None /\ remote_id = None)

(***************************************************************************)
(* Properties of the directory walker (SpecWalk)                           *)
(***************************************************************************)
\* the SEND that follows request i, if the walker issued one for the same file
SendFollows(i) ==
    /\ i < Len(requests)
    /\ requests[i + 1].req = "SEND"
    /\ requests[i + 1].node = requests[i].node

\* C8: in a non-dry run every SEND comes right after the STAT of the same
\* file, and after a STAT the file is skipped (no SEND) exactly when the reply
\* says the remote file exists (mode # 0) and has the local length; a reply
\* with mode = 0 leads to a SEND also for an empty local file.
C8_SkipIffExistsWithSameSize ==
    ~dry_run =>
      \A i \in 1..Len(requests) :
        /\ requests[i].req = "SEND"
             => (i > 1 /\ requests[i - 1].req = "STAT"
                       /\ requests[i - 1].node = requests[i].node)
        /\ (requests[i].req = "STAT" /\ RemoteMetadata(requests[i].reply) # "Err")
             => (~SendFollows(i) <=>
                   (/\ requests[i].reply.ok
                    /\ requests[i].reply.mode # 0
                    /\ requests[i].reply.size = tree[requests[i].node].len))

IsMkdir(r) == r.req = "MKDIR"
IsShellMkdir(r) == r.req = "MKDIR" /\ r.via = "shell_device"
IsStatOrSend(r) == r.req \in {"STAT", "SEND"}
PathOf(rs) == [i \in 1..Len(rs) |-> rs[i].path]

\* C16: over the directory-creation pass and the walk together, mkdir -p is
\* issued at most once for each normalized remote directory; directories that
\* differ only by trailing slashes are the same directory.
C16_MkdirOncePerDirectory ==
    \A i, j \in 1..Len(requests) :
        (i < j /\ IsMkdir(requests[i]) /\ IsMkdir(requests[j]))
        => NormalizeRemoteDirPath(requests[i].path) # NormalizeRemoteDirPath(requests[j].path)

C16_Witness ==
    /\ wpc = "done" /\ ~dry_run
    /\ Count(requests, IsMkdir) >= 2
    /\ \E i \in 1..Len(requests) : requests[i].req = "STAT" /\ Len(requests[i].node) = 2

\* `below` lies under the directory `above`
IsBelow(below, above) ==
    /\ below # above
    /\ \/ above = <<47>>
       \/ /\ Len(below) > Len(above)
          /\ SubSeq(below, 1, Len(above)) = above
          /\ below[Len(above) + 1] = 47
NonRoot(dirs) == SelectSeq(dirs, LAMBDA d : NormalizeRemoteDirPath(d) # <<47>>)

\* C17: the list of collect_remote_directories is in ascending depth, no
\* directory comes before a directory it lies under, and the mkdir commands
\* of the creation pass are issued in the order of the list.
C17_DirectoriesByDepth ==
    LET made == PathOf(SelectSeq(requests, IsShellMkdir))
        todo == NonRoot(remote_directories)
    IN /\ \A i, j \in 1..Len(remote_directories) :
            i < j => /\ DirectoryDepth(remote_directories[i])
                          <= DirectoryDepth(remote_directories[j])
                     /\ ~IsBelow(remote_directories[i], remote_directories[j])
       /\ Len(made) <= Len(todo)
       /\ made = SubSeq(todo, 1, Len(made))
       /\ (~dry_run /\ wpc \in {"walk", "done"}) => made = todo

C17_Witness ==
    /\ wpc = "walk" /\ ~dry_run
    /\ Len(remote_directories) = 4
    /\ Count(requests, IsShellMkdir) = 4

\* C18: every mkdir is issued before the first STAT or SEND, the device used
\* for the mkdir commands is released before the device used for sync is
\* created, and the walk (sync_directory with ensure_remote_dir) issues no
\* mkdir.
C18_MkdirsBeforeSync ==
    /\ \A i \in 1..Len(requests) : IsMkdir(requests[i]) => requests[i].via = "shell_device"
    /\ \A i, j \in 1..Len(requests) :
          (i < j /\ IsStatOrSend(requests[i])) => ~IsMkdir(requests[j])
    /\ adb_device # "none" => shell_device # "open"
    /\ shell_device = "open" => wpc = "create_dirs"

C18_Witness ==
    /\ wpc = "done" /\ ~dry_run
    /\ shell_device = "dropped" /\ adb_device = "dropped"
    /\ Count(requests, IsShellMkdir) = 3
    /\ \E i \in 1..Len(requests) : requests[i].req = "SEND" /\ Len(requests[i].node) = 2

\* messages that name a missing file, in any case, and messages that do not
MissingMessages ==
    { <<78, 111, 32, 83, 117, 99, 104, 32, 70, 105, 108, 101>>,
      <<120, 32, 78, 79, 84, 32, 70, 79, 85, 78, 68>>,
      <<68, 111, 101, 115, 32, 78, 111, 116, 32, 69, 120, 105, 115, 116>>,
      <<102, 97, 105, 108, 101, 100, 32, 116, 111, 32, 108, 115, 116, 97, 116>>,
      <<70, 97, 105, 108, 101, 100, 32, 84, 111, 32, 83, 116, 97, 116>> }
OtherMessages ==
    { <<100, 101, 110, 105, 101, 100>>,
      <<110, 111, 32, 115, 117, 99, 104>>,
      <<110, 111, 116, 102, 111, 117, 110, 100>>,
      <<>> }
IsMissing(reply) == reply.kind = "ADBRequestFailed" /\ reply.message \in MissingMessages
\* the request ended in an error that is not "file absent"
Failed(r) == ~r.reply.ok /\ ~(r.req = "STAT" /\ IsMissing(r.reply))

\* C19: a STAT failure ADBRequestFailed whose message contains "no such
\* file", "not found", "does not exist", "failed to stat" or "failed to
\* lstat" in any case means "file absent": the request goes on with that file.
\* Every other error of STAT, SEND or mkdir aborts the request: no STAT, SEND
\* or mkdir follows it and no summary is returned.
C19_OnlyMissingFileIsTolerated ==
    /\ \A msg \in MissingMessages : RemoteMetadata(StatErr("ADBRequestFailed", msg)) = "None"
    /\ \A msg \in OtherMessages : RemoteMetadata(StatErr("ADBRequestFailed", msg)) = "Err"
    /\ \A msg \in MissingMessages : RemoteMetadata(StatErr("IOError", msg)) = "Err"
    /\ \A i \in 1..Len(requests) :
          /\ Failed(requests[i])
               => (i = Len(requests) /\ wpc = "failed" /\ werror # "none")
          /\ (requests[i].req = "STAT" /\ IsMissing(requests[i].reply))
               => /\ ~(i = Len(requests) /\ wpc = "failed")
                  /\ ~dry_run => SendFollows(i)
    /\ wpc = "done" => \A i \in 1..Len(requests) : ~Failed(requests[i])

C19_Witness ==
    /\ wpc = "done" /\ ~dry_run
    /\ \E i \in 1..Len(requests) :
          /\ requests[i].req = "STAT" /\ IsMissing(requests[i].reply)
          /\ SendFollows(i)
          /\ i + 1 < Len(requests)

\* some component of the local path begins with '.'
Hidden(p) == \E k \in 1..Len(p) : p[k][1] = 46
VisibleFiles == {p \in NodePaths : tree[p].kind = "file" /\ ~Hidden(p)}
VisibleDirs == {p \in NodePaths : tree[p].kind = "dir" /\ ~Hidden(p)}
\* regular files that are not hidden, plus remote directories other than "/"
ExpectedTotal ==
    Cardinality(VisibleFiles) + Cardinality(VisibleDirs)
      + (IF remote_root = <<47>> THEN 0 ELSE 1)

\* the STAT requests of the files that were completed (pushed or skipped)
CompletedStats ==
    {i \in 1..Len(requests) :
        /\ requests[i].req = "STAT"
        /\ ~Failed(requests[i])
        /\ ~(SendFollows(i) /\ Failed(requests[i + 1]))}
\* the elements of s at the positions I, in ascending order of position
Pick(s, I) ==
    [k \in 1..Cardinality(I) |->
        s[CHOOSE i \in I : Cardinality({j \in I : j < i}) = k - 1]]
CurrentOf(es) == [i \in 1..Len(es) |-> es[i].current_file]

\* C21: the sink receives one event at the start, with processed = 0 and
\* total = visible regular files + non-root remote directories, then exactly
\* one event per directory creation and one per file completion (pushed or
\* skipped), each raising processed by one with the same total; nothing else.
C21_OneEventPerStep ==
    /\ wpc \in {"create_dirs", "walk", "done"} => events # <<>>
    /\ events # <<>> =>
         /\ events[1] = [processed_files |-> 0, total_files |-> ExpectedTotal,
                         current_file |-> <<>>, dry_run |-> dry_run]
         /\ \A i \in 2..Len(events) :
               /\ events[i].processed_files = events[i - 1].processed_files + 1
               /\ events[i].total_files = ExpectedTotal
         /\ Len(events) = 1 + stats.directories_created + Cardinality(CompletedStats)
         /\ CurrentOf(Tail(events)) =
               SubSeq(NonRoot(remote_directories), 1, stats.directories_created)
                 \o PathOf(Pick(requests, CompletedStats))

C21_Witness ==
    /\ wpc = "done" /\ ~dry_run
    /\ stats.directories_created >= 2
    /\ Cardinality(CompletedStats) >= 2
    /\ \E i \in CompletedStats : SendFollows(i)
    /\ \E i \in CompletedStats : ~SendFollows(i)

\* C26: every progress event has processed_files <= total_files, and the
\* last event of a run that completes has processed_files = total_files.
C26_ProcessedReachesTotal ==
    /\ \A i \in 1..Len(events) : events[i].processed_files <= events[i].total_files
    /\ progress.processed_files <= progress.total_files
    /\ wpc = "done" =>
         /\ events # <<>>
         /\ events[Len(events)].processed_files = events[Len(events)].total_files

C26_Witness ==
    /\ wpc = "done"
    /\ Len(events) >= 4
    /\ events[Len(events)].processed_files = 3
    /\ \E p \in NodePaths : Hidden(p) /\ tree[p].kind = "file"
    /\ tree[<< <<98>> >>].kind = "other"

\* a remote path with a segment that begins with '.'
HiddenString(path) ==
    \E k \in 1..Len(path) : path[k] = 46 /\ (k = 1 \/ path[k - 1] = 47)
\* the hidden entries of the directories that are walked, and the visible
\* entries that are neither file nor directory
HiddenEncountered ==
    {p \in NodePaths : tree[p] # Absent /\ p[Len(p)][1] = 46 /\ ~Hidden(Parent(p))}
VisibleOthers == {p \in NodePaths : tree[p].kind = "other" /\ ~Hidden(p)}

\* C22: an entry whose name begins with '.' is never uploaded: neither it nor
\* anything below a hidden directory is STATed, SENT, created with mkdir or
\* counted in the progress total; the walk adds one to skipped_entries for
\* each hidden entry of a directory it reads.
C22_HiddenEntriesSkipped ==
    /\ \A i \in 1..Len(requests) :
          /\ ~Hidden(requests[i].node)
          /\ ~HiddenString(requests[i].path)
    /\ \A i \in 1..Len(remote_directories) : ~HiddenString(remote_directories[i])
    /\ \A d \in created_dirs : ~HiddenString(d)
    /\ \A i \in 1..Len(events) :
          /\ ~HiddenString(events[i].current_file)
          /\ events[i].total_files
               = Cardinality(VisibleFiles) + Len(NonRoot(remote_directories))
    /\ stats.skipped_entries <= Cardinality(HiddenEncountered) + Cardinality(VisibleOthers)
    /\ wpc = "done" =>
          stats.skipped_entries = Cardinality(HiddenEncountered) + Cardinality(VisibleOthers)

C22_Witness ==
    /\ wpc = "done" /\ ~dry_run
    /\ tree[<< <<46, 104>> >>].kind = "dir"
    /\ tree[<< <<46, 104>>, <<100>> >>].kind = "file"
    /\ tree[<< <<97>>, <<46, 103>> >>].kind = "file"
    /\ stats.skipped_entries = 2
    /\ \E i \in 1..Len(requests) : requests[i].req = "SEND"

\* the STAT reply leaves the file to be pushed: the remote file is missing
\* or its size is not the local length
PushDecision(r) == ~(r.reply.ok /\ r.reply.size = tree[r.node].len)
RECURSIVE SumLen(_)
SumLen(I) ==
    IF I = {} THEN 0
    ELSE LET i == CHOOSE j \in I : TRUE
         IN tree[requests[i].node].len + SumLen(I \ {i})

\* C23: on a successful run files_synced is the number of files that were to
\* be pushed, bytes_uploaded the sum of their local lengths and
\* directories_created the number of distinct non-root remote directories; a
\* skipped file adds nothing to files_synced and bytes_uploaded, and advances
\* the progress counter by one all the same.
C23_SummaryCounts ==
    wpc = "done" =>
      LET stats_ == {i \in 1..Len(requests) : requests[i].req = "STAT"}
          pushed == IF dry_run
                      THEN {i \in stats_ : PushDecision(requests[i])}
                      ELSE {i \in stats_ : SendFollows(i)}
      IN /\ stats.files_synced = Cardinality(pushed)
         /\ stats.bytes_uploaded = SumLen(pushed)
         /\ stats.directories_created
              = Cardinality(VisibleDirs) + (IF remote_root = <<47>> THEN 0 ELSE 1)
         /\ Cardinality(stats_) = Cardinality(VisibleFiles)
         /\ progress.processed_files = stats.directories_created + Cardinality(stats_)

C23_Witness ==
    /\ wpc = "done" /\ ~dry_run
    /\ stats.files_synced = 1 /\ stats.bytes_uploaded = 1
    /\ stats.directories_created >= 2
    /\ \E i \in 1..Len(requests) :
          /\ requests[i].req = "STAT" /\ ~SendFollows(i)
          /\ tree[requests[i].node].len = 1

\* an event without its dry_run flag
Shown(e) == <<e.processed_files, e.total_files, e.current_file>>

\* C27: a dry run issues no mkdir and no SEND, only STAT requests; and
\* files_synced, bytes_uploaded, directories_created and the progress events
\* are determined by the tree, the directories gone through and the STAT
\* replies alone, so that they are those of a real run with the same replies.
C27_DryRunCountsLikeRealRun ==
    /\ dry_run => \A i \in 1..Len(requests) : requests[i].req = "STAT"
    /\ wpc \in {"create_dirs", "walk", "done"} =>
         LET stats_ == {i \in 1..Len(requests) : requests[i].req = "STAT"}
             pushes == {i \in stats_ : PushDecision(requests[i])}
             dirs == NonRoot(SubSeq(remote_directories, 1, dirIndex - 1))
             files == PathOf(Pick(requests, stats_))
             total == Cardinality(VisibleFiles) + Len(NonRoot(remote_directories))
         IN /\ stats.files_synced = Cardinality(pushes)
            /\ stats.bytes_uploaded = SumLen(pushes)
            /\ stats.directories_created = Len(dirs)
            /\ [i \in 1..Len(events) |-> Shown(events[i])]
                 = <<<<0, total, <<>>>>>>
                   \o [k \in 1..Len(dirs) |-> <<k, total, dirs[k]>>]
                   \o [k \in 1..Len(files) |-> <<Len(dirs) + k, total, files[k]>>]

C27_Witness ==
    /\ wpc = "done" /\ dry_run
    /\ stats.files_synced = 1 /\ stats.bytes_uploaded = 1
    /\ stats.directories_created >= 2
    /\ Len(requests) >= 2
    /\ \E i \in 1..Len(requests) : ~PushDecision(requests[i])

(***************************************************************************)
(* Properties of normalize_remote_path (SpecPath)                          *)
(***************************************************************************)
\* C20: normalize_remote_path is idempotent: whenever it succeeds on a path
\* over '/', '\', '.', space and letters, normalizing its result gives the
\* same result again.
C20_NormalizeIdempotent ==
    (Len(normalized_path) = 2 /\ normalized_path[1].ok) => normalized_path[2] = normalized_path[1]

====
